---------------------------- MODULE Spec2Model ----------------------------
(***************************************************************************)
(* Redirect service (Cloudflare Worker over three KV namespaces).          *)
(*                                                                         *)
(* State: the KV namespaces REDIRECTS (key -> JSON record), CLICKS         *)
(* (key -> decimal string) and INDEX (index name -> JSON array of keys),   *)
(* and, per request in flight, the handler's position and locals.  Every   *)
(* await of a KV call is one step; what a handler computes between two     *)
(* awaits belongs to the step of the later call.                           *)
(*                                                                         *)
(* Strings the code inspects character by character (group, slug, keys,    *)
(* counters) are sequences of one-character strings; the others (target,   *)
(* createdBy, title, notes, index names) are strings.  A JSON object is a  *)
(* function from its own property names; a property that is undefined is   *)
(* not in the domain.                                                      *)
(***************************************************************************)
EXTENDS Integers, Sequences, FiniteSets, TLC

VARIABLES REDIRECTS, CLICKS, INDEX, pc, req, loc, resp, writes, clock

store == <<REDIRECTS, CLICKS, INDEX>>
vars == <<REDIRECTS, CLICKS, INDEX, pc, req, loc, resp, writes, clock>>

(***************************************************************************)
(* Bounds of the exploration.                                              *)
(***************************************************************************)
\* requests dispatched in one behaviour of Spec (one request at a time)
MaxRequests == 3
\* requests dispatched in one behaviour of ConcSpec (overlapping requests)
MaxConcRequests == 3
\* public resolutions in one behaviour of ClickSpec
MaxResolves == 11
\* largest page number and page size a list request asks for
MaxPage == 2
MaxPageSize == 2
\* requests dispatched in one behaviour of OrderSpec (overlapping creates and
\* deletes)
MaxOrderRequests == 5
\* requests dispatched in one behaviour of FailSpec (KV calls may fail)
MaxFailRequests == 3
\* requests dispatched in one behaviour of CorruptSpec (records not JSON)
MaxCorruptRequests == 3

Procs == {1, 2}

(***************************************************************************)
(* utils: identifier rules and the composite key.                          *)
(***************************************************************************)
SlugMaxLen == 128
GroupMaxLen == 4

Letters == {"a","b","c","d","e","f","g","h","i","j","k","l","m",
            "n","o","p","q","r","s","t","u","v","w","x","y","z",
            "A","B","C","D","E","F","G","H","I","J","K","L","M",
            "N","O","P","Q","R","S","T","U","V","W","X","Y","Z"}
Digits == {"0","1","2","3","4","5","6","7","8","9"}

\* the character class [A-Za-z0-9_-]
IdChar(c) == c \in Letters \cup Digits \cup {"_", "-"}

\* /^[A-Za-z0-9_-]{1,128}$/.test(slug)
validateSlug(slug) ==
    /\ Len(slug) >= 1
    /\ Len(slug) <= SlugMaxLen
    /\ \A i \in 1..Len(slug) : IdChar(slug[i])

\* /^[A-Za-z0-9_-]{1,4}$/.test(group)
validateGroup(group) ==
    /\ Len(group) >= 1
    /\ Len(group) <= GroupMaxLen
    /\ \A i \in 1..Len(group) : IdChar(group[i])

\* `${group}/${slug}`
makeKey(group, slug) == group \o <<"/">> \o slug

(***************************************************************************)
(* JSON objects and JavaScript truthiness.                                 *)
(***************************************************************************)
Has(obj, f) == f \in DOMAIN obj

\* a string or sequence value is falsy exactly when it is empty
Falsy(v) == Len(v) = 0

\* !obj.f : the property is undefined or falsy
Not(obj, f) == ~Has(obj, f) \/ Falsy(obj[f])

EmptyObj == [f \in {} |-> ""]

\* { ...a, ...b } : b's properties override a's
Spread(a, b) ==
    [f \in DOMAIN a \cup DOMAIN b |-> IF f \in DOMAIN b THEN b[f] ELSE a[f]]

\* the object keeping only the properties in fs
Pick(obj, fs) == [f \in DOMAIN obj \cap fs |-> obj[f]]

\* JSON.stringify of an object literal: the properties that are undefined
\* (absent here) are not written, the others are written as they are
JSONstringify(obj) == [f \in DOMAIN obj |-> obj[f]]

\* JSON.parse of a stored value: the object with the properties written
JSONparse(raw) == [f \in DOMAIN raw |-> raw[f]]

\* a stored text that is not JSON: JSON.parse throws on it.  The handlers
\* write only what JSON.stringify returns, so such a value comes from outside
Garbage == [garbage |-> "{"]

\* JSON.parse(raw) returns
Parses(raw) == raw # Garbage

(***************************************************************************)
(* KV namespaces: get / put / delete of one key.                           *)
(***************************************************************************)
EmptyKV == [k \in {} |-> ""]

KVhas(ns, k) == k \in DOMAIN ns

KVput(ns, k, v) == [x \in DOMAIN ns \cup {k} |-> IF x = k THEN v ELSE ns[x]]

KVdelete(ns, k) == [x \in DOMAIN ns \ {k} |-> ns[x]]


(***************************************************************************)
(* utils: the index lists.                                                 *)
(***************************************************************************)
ALL == "__ALL__"

\* `__USER__:${createdBy}`
UserIndex(createdBy) == "__USER__:" \o createdBy

\* raw ? JSON.parse(raw) : []
getIndex(idx, name) == IF KVhas(idx, name) THEN idx[name] ELSE <<>>

\* saveIndex: INDEX.put(key, JSON.stringify(values))
saveIndex(idx, name, values) == KVput(idx, name, values)

IncludesNever(list, value) == FALSE

\* list.includes(value)
Includes(list, value) == \E i \in 1..Len(list) : list[i] = value

\* list.push(value)
Push(list, value) == Append(list, value)

FilterKeep(list, value) == SelectSeq(list, LAMBDA v : v = value)

\* list.filter(v => v !== value)
FilterOut(list, value) == SelectSeq(list, LAMBDA v : v # value)

\* addToIndex, from its call to its return with no other call in between
addToIndex(idx, name, value) ==
    LET list == getIndex(idx, name)
    IN  IF ~Includes(list, value)
        THEN saveIndex(idx, name, Push(list, value))
        ELSE idx

\* removeFromIndex, from its call to its return with no other call in between
removeFromIndex(idx, name, value) ==
    saveIndex(idx, name, FilterOut(getIndex(idx, name), value))

(***************************************************************************)
(* Decimal strings of the click counters.                                  *)
(***************************************************************************)
DigitSeq == <<"0","1","2","3","4","5","6","7","8","9">>

NaN == -1

DigitVal(c) == CHOOSE d \in 0..9 : DigitSeq[d + 1] = c

RECURSIVE NatToDec(_)
NatToDec(n) ==
    IF n < 10 THEN <<DigitSeq[n + 1]>>
    ELSE NatToDec(n \div 10) \o <<DigitSeq[(n % 10) + 1]>>

\* (n).toString()
NumberToString(n) == IF n = NaN THEN <<"N","a","N">> ELSE NatToDec(n)

RECURSIVE DigitsValue(_, _, _)
DigitsValue(s, i, acc) ==
    IF i > Len(s) \/ s[i] \notin Digits THEN acc
    ELSE DigitsValue(s, i + 1, acc * 10 + DigitVal(s[i]))

parseIntOneDigit(s) ==
    IF Len(s) = 0 \/ s[1] \notin Digits THEN NaN ELSE DigitVal(s[1])

\* parseInt(s, 10) of a string without sign or leading blanks: the value of
\* its longest prefix of digits, NaN when that prefix is empty
parseInt(s) ==
    IF Len(s) = 0 \/ s[1] \notin Digits THEN NaN ELSE DigitsValue(s, 1, 0)

\* n + 1 in JavaScript numbers
PlusOne(n) == IF n = NaN THEN NaN ELSE n + 1

(***************************************************************************)
(* new URL(target): the strings the platform's URL parser accepts as an   *)
(* absolute URL, among the targets the requests below carry.               *)
(***************************************************************************)
AbsoluteURLs == {"https://example.com", "https://other.org"}

ParsesAsURL(target) == target \in AbsoluteURLs

(***************************************************************************)
(* Requests in flight.                                                     *)
(***************************************************************************)
NoReq == [op |-> "none"]
NoLoc == [list |-> <<>>, clicks |-> <<>>]
NoResp == [status |-> 0]

Idle(p) == pc[p] = "idle"
AllIdle == \A p \in Procs : Idle(p)

\* a request is dispatched to slot p: the clock ticks; req[p] is the request
\* last dispatched to the slot
Dispatch(p, r) ==
    /\ Idle(p)
    /\ clock' = clock + 1
    /\ writes' = [writes EXCEPT ![p] = 0]
    /\ req' = [req EXCEPT ![p] = r]

\* the handler returns response r: the request is over
Return(p, r) ==
    /\ pc' = [pc EXCEPT ![p] = "idle"]
    /\ resp' = [resp EXCEPT ![p] = r]
    /\ loc' = [loc EXCEPT ![p] = NoLoc]

\* the handler reaches its first await that any later step depends on,
\* with locals l; the slot holds no response yet
Start(p, next, l) ==
    /\ pc' = [pc EXCEPT ![p] = next]
    /\ loc' = [loc EXCEPT ![p] = l]
    /\ resp' = [resp EXCEPT ![p] = NoResp]

\* the handler goes on to its next await, with locals l
Goto(p, next, l) ==
    /\ pc' = [pc EXCEPT ![p] = next]
    /\ loc' = [loc EXCEPT ![p] = l]
    /\ UNCHANGED resp

\* a step of a request in flight
Running(p, at) ==
    /\ pc[p] = at
    /\ UNCHANGED <<req, clock>>

\* a dispatch does its first KV call, a get
NoWrite == UNCHANGED <<REDIRECTS, CLICKS, INDEX>>

\* a step that does a get
Quiet == UNCHANGED <<REDIRECTS, CLICKS, INDEX, writes>>

Wrote(p) == writes' = [writes EXCEPT ![p] = @ + 1]

Init ==
    /\ REDIRECTS = EmptyKV
    /\ CLICKS = EmptyKV
    /\ INDEX = EmptyKV
    /\ pc = [p \in Procs |-> "idle"]
    /\ req = [p \in Procs |-> NoReq]
    /\ loc = [p \in Procs |-> NoLoc]
    /\ resp = [p \in Procs |-> NoResp]
    /\ writes = [p \in Procs |-> 0]
    /\ clock = 0


(***************************************************************************)
(* Request inputs.  A payload is what request.json() yields: json is       *)
(* FALSE when the body is not JSON (the handler then sees null).           *)
(***************************************************************************)
GroupAB == <<"a", "b">>
GroupLong == <<"a", "b", "c", "d", "e">>
SlugHome == <<"h", "o", "m", "e">>
SlugLand == <<"l", "a", "n", "d">>
SlugBad == <<"a", " ", "b">>
SlugLong == [i \in 1..(SlugMaxLen + 1) |-> "s"]
Empty == <<>>

URL1 == "https://example.com"
URL2 == "https://other.org"

Users == {"u1", "u2"}
Slugs == {SlugHome, SlugLand}

NotJSON == [json |-> FALSE, body |-> EmptyObj]
Payload(obj) == [json |-> TRUE, body |-> obj]

ValidCreateBodies ==
    {[group |-> GroupAB, slug |-> s, target |-> URL1, createdBy |-> u] :
        s \in Slugs, u \in Users}
    \cup
    {[group |-> GroupAB, slug |-> s, target |-> URL1, createdBy |-> "u1",
      title |-> "t", notes |-> "n"] : s \in Slugs}

InvalidCreateBodies ==
    { EmptyObj,
      [group |-> GroupAB, slug |-> SlugHome, createdBy |-> "u1"],
      [group |-> GroupAB, slug |-> SlugHome, target |-> "", createdBy |-> "u1"],
      [group |-> GroupAB, slug |-> SlugHome, target |-> URL1, createdBy |-> ""],
      [group |-> Empty, slug |-> SlugHome, target |-> URL1, createdBy |-> "u1"],
      [group |-> GroupLong, slug |-> SlugHome, target |-> URL1, createdBy |-> "u1"],
      [group |-> GroupAB, slug |-> SlugBad, target |-> URL1, createdBy |-> "u1"],
      [group |-> GroupAB, slug |-> SlugLong, target |-> URL1, createdBy |-> "u1"],
      [group |-> GroupAB, slug |-> SlugHome, target |-> "not-a-url", createdBy |-> "u1"] }

CreatePayloads ==
    {NotJSON} \cup {Payload(b) : b \in ValidCreateBodies \cup InvalidCreateBodies}

PatchBodies ==
    { EmptyObj,
      [createdBy |-> "u2", createdAt |-> 0],
      [target |-> URL2],
      [target |-> ""],
      [target |-> "not-a-url"],
      [title |-> "t2"],
      [notes |-> "n2", createdBy |-> "u2"],
      [slug |-> SlugHome],
      [slug |-> SlugLand],
      [slug |-> SlugLand, target |-> URL2, title |-> "t2"],
      [slug |-> SlugBad],
      [slug |-> Empty],
      [group |-> GroupAB, slug |-> SlugLand],
      [group |-> GroupLong],
      [group |-> Empty] }

PatchPayloads == {NotJSON} \cup {Payload(b) : b \in PatchBodies}

\* the {group}/{slug} path segments of an admin or public URL
PathGroups == {GroupAB, GroupLong}
PathSlugs == {SlugHome, SlugLand, SlugBad}

(***************************************************************************)
(* admin: createRedirect.                                                  *)
(***************************************************************************)
Locals(key, newKey, createdBy, parsed) ==
    [key |-> key, newKey |-> newKey, createdBy |-> createdBy,
     parsed |-> parsed, list |-> <<>>, clicks |-> <<>>]

Err(status, msg) == [status |-> status, error |-> msg]

\* index.ts lines 99-102: what a handler throws is answered with a 500
InternalError == Err(500, "Internal server error")

\* the entry createRedirect writes, at time now
NewEntry(body, now) ==
    Spread([target |-> body.target, group |-> body.group, slug |-> body.slug,
            createdBy |-> body.createdBy, createdAt |-> now, updatedAt |-> now],
           Pick(body, {"title", "notes"}))

\* lines 28-29: exists, the value got at the key, is truthy (a stored record
\* is never the empty string)
SlugTakenNever(redirects, key) == FALSE

SlugTaken(redirects, key) == KVhas(redirects, key)

\* lines 8-29: the body, the required fields, the patterns, the URL, and the
\* existence check (the handler's first KV call)
CreateStart(p, payload) ==
    /\ Dispatch(p, [op |-> "create", payload |-> payload])
    /\ NoWrite
    /\ LET body == payload.body
           key == makeKey(body.group, body.slug)
       IN  IF ~payload.json
             THEN Return(p, Err(400, "Missing JSON body"))
           ELSE IF Not(body, "group") \/ Not(body, "slug")
                   \/ Not(body, "target") \/ Not(body, "createdBy")
             THEN Return(p, Err(400, "group, slug, target, createdBy are required"))
           ELSE IF ~validateGroup(body.group)
             THEN Return(p, Err(400, "Invalid group"))
           ELSE IF ~validateSlug(body.slug)
             THEN Return(p, Err(400, "Invalid slug"))
           ELSE IF ~ParsesAsURL(body.target)
             THEN Return(p, Err(400, "Invalid target URL"))
           ELSE IF SlugTaken(REDIRECTS, key)
             THEN Return(p, Err(409, "Slug already taken"))
           ELSE Start(p, "c_all_get", Locals(key, key, body.createdBy, EmptyObj))

\* line 49: REDIRECTS.put(key, JSON.stringify(entry)), entry built at line 37
CreatePut(p) ==
    /\ Running(p, "c_put")
    /\ REDIRECTS' = KVput(REDIRECTS, loc[p].key,
                          JSONstringify(NewEntry(req[p].payload.body, clock)))
    /\ Wrote(p)
    /\ Goto(p, "c_clicks", loc[p])
    /\ UNCHANGED <<CLICKS, INDEX>>

\* line 51: CLICKS.put(key, "0"), then the 201
CreateClicks(p) ==
    /\ Running(p, "c_clicks")
    /\ CLICKS' = KVput(CLICKS, loc[p].key, <<"0">>)
    /\ Wrote(p)
    /\ Return(p, [status |-> 201, message |-> "Redirect created", key |-> loc[p].key])
    /\ UNCHANGED <<REDIRECTS, INDEX>>

(***************************************************************************)
(* The call sites of addToIndex and removeFromIndex: which index, which    *)
(* key, and where the handler goes on.                                     *)
(***************************************************************************)
AddSites == {"c_all", "c_usr", "e_all_add", "e_usr_add"}
RemoveSites == {"e_all_rm", "e_usr_rm", "d_all", "d_usr"}

SiteIndex(p, s) ==
    IF s \in {"c_all", "e_all_add", "e_all_rm", "d_all"}
    THEN ALL ELSE UserIndex(loc[p].createdBy)

SiteValue(p, s) ==
    IF s \in {"e_all_add", "e_usr_add"} THEN loc[p].newKey ELSE loc[p].key

SiteNextAddFirst(s) ==
    CASE s = "c_all" -> "c_usr_get"
      [] s = "c_usr" -> "c_put"
      [] s = "e_all_rm" -> "e_usr_add_get"
      [] s = "e_usr_add" -> "e_usr_rm_get"
      [] s = "e_usr_rm" -> "e_all_add_get"
      [] s = "e_all_add" -> "e_return"
      [] s = "d_all" -> "d_usr_get"
      [] s = "d_usr" -> "d_del"

SiteNext(s) ==
    CASE s = "c_all" -> "c_usr_get"
      [] s = "c_usr" -> "c_put"
      [] s = "e_all_rm" -> "e_all_add_get"
      [] s = "e_all_add" -> "e_usr_rm_get"
      [] s = "e_usr_rm" -> "e_usr_add_get"
      [] s = "e_usr_add" -> "e_return"
      [] s = "d_all" -> "d_usr_get"
      [] s = "d_usr" -> "d_del"

\* after the index call at site s: the next await, or editRedirect's return
AfterSite(p, s) ==
    IF SiteNext(s) = "e_return"
    THEN Return(p, [status |-> 200, message |-> "Updated and key moved",
                    oldKey |-> loc[p].key, newKey |-> loc[p].newKey])
    ELSE Goto(p, SiteNext(s), [loc[p] EXCEPT !.list = <<>>])

\* addToIndex, to its first await: the list is read; a value it includes
\* ends the call, another is pushed
addToIndex_get(p) ==
    \E s \in AddSites :
        /\ Running(p, s \o "_get")
        /\ Quiet
        /\ LET list == getIndex(INDEX, SiteIndex(p, s))
           IN  IF ~Includes(list, SiteValue(p, s))
               THEN Goto(p, s \o "_put",
                         [loc[p] EXCEPT !.list = Push(list, SiteValue(p, s))])
               ELSE AfterSite(p, s)

\* removeFromIndex, to its first await: the list is read and filtered
removeFromIndex_get(p) ==
    \E s \in RemoveSites :
        /\ Running(p, s \o "_get")
        /\ Quiet
        /\ LET list == getIndex(INDEX, SiteIndex(p, s))
           IN  Goto(p, s \o "_put",
                    [loc[p] EXCEPT !.list = FilterOut(list, SiteValue(p, s))])

\* the saveIndex that ends addToIndex or removeFromIndex
saveIndex_put(p) ==
    \E s \in AddSites \cup RemoveSites :
        /\ Running(p, s \o "_put")
        /\ INDEX' = saveIndex(INDEX, SiteIndex(p, s), loc[p].list)
        /\ Wrote(p)
        /\ AfterSite(p, s)
        /\ UNCHANGED <<REDIRECTS, CLICKS>>

(***************************************************************************)
(* admin: editRedirect.                                                    *)
(***************************************************************************)
Allowed == {"target", "title", "notes", "group", "slug"}

\* lines 150-155: the allowed properties the body has
UpdateFields(body) == Pick(body, Allowed)

\* updateFields.f ?? parsed.f
Coalesce(updateFields, parsed, f) ==
    IF Has(updateFields, f) THEN updateFields[f] ELSE parsed[f]

NewGroup(body, parsed) == Coalesce(UpdateFields(body), parsed, "group")
NewSlug(body, parsed) == Coalesce(UpdateFields(body), parsed, "slug")

UpdatedUnfiltered(body, parsed, now) ==
    Spread(Spread(parsed, body),
           [group |-> NewGroup(body, parsed), slug |-> NewSlug(body, parsed),
            updatedAt |-> now])

\* lines 191-197: the record an update writes, at time now
Updated(body, parsed, now) ==
    Spread(Spread(parsed, UpdateFields(body)),
           [group |-> NewGroup(body, parsed), slug |-> NewSlug(body, parsed),
            updatedAt |-> now])

\* index.ts line 71 and admin.ts lines 137-181: the path, the record read
\* (the handler's first KV call), the body and its validation
EditStart(p, group, slug, payload) ==
    /\ Dispatch(p, [op |-> "edit", group |-> group, slug |-> slug,
                    payload |-> payload])
    /\ NoWrite
    /\ LET oldKey == makeKey(group, slug)
           body == payload.body
           parsed == JSONparse(REDIRECTS[oldKey])
           updateFields == UpdateFields(body)
           newKey == makeKey(NewGroup(body, parsed), NewSlug(body, parsed))
       IN  IF ~validateGroup(group) \/ ~validateSlug(slug)
             THEN Return(p, Err(400, "Invalid path"))
           ELSE IF ~KVhas(REDIRECTS, oldKey)
             THEN Return(p, Err(404, "Not found"))
           ELSE IF ~payload.json
             THEN Return(p, Err(400, "Missing JSON body"))
           ELSE IF ~Parses(REDIRECTS[oldKey])
             THEN Return(p, InternalError)
           ELSE IF DOMAIN updateFields = {}
             THEN Return(p, Err(400, "Nothing to update"))
           ELSE IF ~Not(updateFields, "target") /\ ~ParsesAsURL(updateFields.target)
             THEN Return(p, Err(400, "Invalid target URL"))
           ELSE IF ~Not(updateFields, "group") /\ ~validateGroup(updateFields.group)
             THEN Return(p, Err(400, "Invalid group"))
           ELSE IF ~Not(updateFields, "slug") /\ ~validateSlug(updateFields.slug)
             THEN Return(p, Err(400, "Invalid slug"))
           ELSE IF newKey # oldKey
             THEN Start(p, "e_check", Locals(oldKey, newKey, parsed.createdBy, parsed))
           ELSE Start(p, "e_put", Locals(oldKey, newKey, parsed.createdBy, parsed))

EditCheckSkipped(p) ==
    /\ Running(p, "e_check")
    /\ Quiet
    /\ Goto(p, "e_put_new", loc[p])

\* lines 184-189: the collision check of a rename
EditCheck(p) ==
    /\ Running(p, "e_check")
    /\ Quiet
    /\ IF KVhas(REDIRECTS, loc[p].newKey)
       THEN Return(p, Err(409, "New slug already exists"))
       ELSE Goto(p, "e_put_new", loc[p])

\* lines 200-203: the same-key update
EditPut(p) ==
    /\ Running(p, "e_put")
    /\ REDIRECTS' = KVput(REDIRECTS, loc[p].key,
           JSONstringify(Updated(req[p].payload.body, loc[p].parsed, clock)))
    /\ Wrote(p)
    /\ Return(p, [status |-> 200, message |-> "Updated"])
    /\ UNCHANGED <<CLICKS, INDEX>>

\* line 208: the record is written at the new key
EditPutNew(p) ==
    /\ Running(p, "e_put_new")
    /\ REDIRECTS' = KVput(REDIRECTS, loc[p].newKey,
           JSONstringify(Updated(req[p].payload.body, loc[p].parsed, clock)))
    /\ Wrote(p)
    /\ Goto(p, "e_del_old", loc[p])
    /\ UNCHANGED <<CLICKS, INDEX>>

\* line 209: the record at the old key is deleted
EditDeleteOld(p) ==
    /\ Running(p, "e_del_old")
    /\ REDIRECTS' = KVdelete(REDIRECTS, loc[p].key)
    /\ Wrote(p)
    /\ Goto(p, "e_clk_get", loc[p])
    /\ UNCHANGED <<CLICKS, INDEX>>

EditClicksGetZeroIsFalsy(p) ==
    /\ Running(p, "e_clk_get")
    /\ Quiet
    /\ IF KVhas(CLICKS, loc[p].key) /\ CLICKS[loc[p].key] # <<"0">>
       THEN Goto(p, "e_clk_put", [loc[p] EXCEPT !.clicks = CLICKS[loc[p].key]])
       ELSE Goto(p, "e_all_rm_get", loc[p])

\* lines 212-213: the old counter is read; a falsy one ends the move
EditClicksGet(p) ==
    /\ Running(p, "e_clk_get")
    /\ Quiet
    /\ IF KVhas(CLICKS, loc[p].key) /\ ~Falsy(CLICKS[loc[p].key])
       THEN Goto(p, "e_clk_put", [loc[p] EXCEPT !.clicks = CLICKS[loc[p].key]])
       ELSE Goto(p, "e_all_rm_get", loc[p])

\* line 214: the counter is written at the new key
EditClicksPut(p) ==
    /\ Running(p, "e_clk_put")
    /\ CLICKS' = KVput(CLICKS, loc[p].newKey, loc[p].clicks)
    /\ Wrote(p)
    /\ Goto(p, "e_clk_del", [loc[p] EXCEPT !.clicks = <<>>])
    /\ UNCHANGED <<REDIRECTS, INDEX>>

\* line 215: the counter at the old key is deleted
EditClicksDelete(p) ==
    /\ Running(p, "e_clk_del")
    /\ CLICKS' = KVdelete(CLICKS, loc[p].key)
    /\ Wrote(p)
    /\ Goto(p, "e_all_rm_get", loc[p])
    /\ UNCHANGED <<REDIRECTS, INDEX>>

(***************************************************************************)
(* admin: deleteRedirect.                                                  *)
(***************************************************************************)
\* index.ts line 71 and admin.ts lines 235-239; JSON.parse at line 239 throws
\* on a stored value that is not JSON, before any index is touched
DeleteStart(p, group, slug) ==
    /\ Dispatch(p, [op |-> "delete", group |-> group, slug |-> slug])
    /\ NoWrite
    /\ LET key == makeKey(group, slug)
           parsed == JSONparse(REDIRECTS[key])
       IN  IF ~validateGroup(group) \/ ~validateSlug(slug)
             THEN Return(p, Err(400, "Invalid path"))
           ELSE IF ~KVhas(REDIRECTS, key)
             THEN Return(p, Err(404, "Not found"))
           ELSE IF ~Parses(REDIRECTS[key])
             THEN Return(p, InternalError)
           ELSE Start(p, "d_all_get", Locals(key, key, parsed.createdBy, parsed))

\* line 247: the record is deleted
DeleteRecord(p) ==
    /\ Running(p, "d_del")
    /\ REDIRECTS' = KVdelete(REDIRECTS, loc[p].key)
    /\ Wrote(p)
    /\ Goto(p, "d_clk", loc[p])
    /\ UNCHANGED <<CLICKS, INDEX>>

\* lines 248-249: the counter is deleted, then the 200
DeleteClicks(p) ==
    /\ Running(p, "d_clk")
    /\ CLICKS' = KVdelete(CLICKS, loc[p].key)
    /\ Wrote(p)
    /\ Return(p, [status |-> 200, message |-> "Deleted"])
    /\ UNCHANGED <<REDIRECTS, INDEX>>

(***************************************************************************)
(* redirect: handlePublicRedirect.                                         *)
(***************************************************************************)
\* the counter value a resolution writes: parseInt(raw || "0", 10) + 1
NextClicks(clicks, key) ==
    NumberToString(PlusOne(parseInt(
        IF KVhas(clicks, key) /\ ~Falsy(clicks[key]) THEN clicks[key] ELSE <<"0">>)))

ResolveStartCountsMisses(p, group, slug) ==
    /\ Dispatch(p, [op |-> "resolve", group |-> group, slug |-> slug])
    /\ UNCHANGED <<REDIRECTS, INDEX>>
    /\ LET key == makeKey(group, slug)
       IN  IF ~KVhas(REDIRECTS, key)
             THEN /\ CLICKS' = KVput(CLICKS, key, NextClicks(CLICKS, key))
                  /\ Return(p, Err(404, "Redirect not found"))
           ELSE IF ~Parses(REDIRECTS[key])
             THEN /\ CLICKS' = CLICKS
                  /\ Return(p, Err(500, "Redirect data corrupted"))
           ELSE /\ CLICKS' = CLICKS
                /\ Start(p, "r_clk_get",
                         Locals(key, key, "", JSONparse(REDIRECTS[key])))

\* lines 109-130 of the handler: the first two path parts, the record read
ResolveStart(p, group, slug) ==
    /\ Dispatch(p, [op |-> "resolve", group |-> group, slug |-> slug])
    /\ NoWrite
    /\ LET key == makeKey(group, slug)
       IN  IF ~KVhas(REDIRECTS, key)
             THEN Return(p, Err(404, "Redirect not found"))
           ELSE IF ~Parses(REDIRECTS[key])
             THEN Return(p, Err(500, "Redirect data corrupted"))
           ELSE Start(p, "r_clk_get",
                      Locals(key, key, "", JSONparse(REDIRECTS[key])))

\* lines 133-138: the counter is read (awaited); its put is issued and not
\* awaited; the 302 is returned while the put is still on its way
ResolveClicksGet(p) ==
    /\ Running(p, "r_clk_get")
    /\ Quiet
    /\ pc' = [pc EXCEPT ![p] = "r_clk_put"]
    /\ loc' = [loc EXCEPT ![p] =
                 [loc[p] EXCEPT !.clicks = NextClicks(CLICKS, loc[p].key),
                                !.parsed = EmptyObj]]
    /\ resp' = [resp EXCEPT ![p] =
                 [status |-> 302, location |-> loc[p].parsed.target]]

\* line 133: the detached CLICKS.put lands
ResolveClicksPut(p) ==
    /\ Running(p, "r_clk_put")
    /\ CLICKS' = KVput(CLICKS, loc[p].key, loc[p].clicks)
    /\ Wrote(p)
    /\ pc' = [pc EXCEPT ![p] = "idle"]
    /\ loc' = [loc EXCEPT ![p] = NoLoc]
    /\ UNCHANGED <<REDIRECTS, INDEX, resp>>

(***************************************************************************)
(* admin: listRedirects and listRedirectsByUser.                           *)
(***************************************************************************)
DEFAULT_PAGE_SIZE == <<"2", "0">>

Min(a, b) == IF a < b THEN a ELSE b
Max(a, b) == IF a > b THEN a ELSE b

\* Math.ceil(n / k), k >= 1
Ceil(n, k) == (n + k - 1) \div k

\* list.slice(start, end): a negative bound counts from the end, and both
\* are clamped to the list
Slice(list, start, end) ==
    LET n == Len(list)
        from == IF start < 0 THEN Max(n + start, 0) ELSE Min(start, n)
        to == IF end < 0 THEN Max(n + end, 0) ELSE Min(end, n)
    IN  SubSeq(list, from + 1, to)

\* searchParams.get(f) || dflt, parsed as an integer
IntParam(query, f, dflt) == parseInt(IF Not(query, f) THEN dflt ELSE query[f])

Page(query) == IntParam(query, "page", <<"1">>)
PageSize(query) == IntParam(query, "pageSize", DEFAULT_PAGE_SIZE)

TotalPages(keys, pageSize) == Ceil(Len(keys), pageSize)

PageKeysFromNext(keys, page, pageSize) ==
    Slice(keys, page * pageSize, page * pageSize + pageSize)

\* lines 77-80: the keys of the page asked for
PageKeys(keys, page, pageSize) ==
    Slice(keys, (page - 1) * pageSize, (page - 1) * pageSize + pageSize)

Null == [null |-> TRUE]

\* raw ? JSON.parse(raw) : null
ItemData(redirects, k) ==
    IF KVhas(redirects, k) THEN JSONparse(redirects[k]) ELSE Null

\* lines 89-95 and 121-128: the body of the listing's response, from the
\* index read, the page's keys and the data got for each; the per-user
\* listing echoes the user
ListResponse(r, keys, pageKeys, data) ==
    Spread(Pick(r, {"user"}),
      [status |-> 200, page |-> Page(r.query), pageSize |-> PageSize(r.query),
       totalItems |-> Len(keys),
       totalPages |-> TotalPages(keys, PageSize(r.query)),
       items |-> [i \in 1..Len(pageKeys) |->
                    [key |-> pageKeys[i], data |-> data[i]]]])

\* the query of a list request: page and pageSize, or neither
ListQueries ==
    {EmptyObj} \cup
    {[page |-> NatToDec(n), pageSize |-> NatToDec(k)] :
        n \in 1..MaxPage, k \in 1..MaxPageSize}

\* lines 68-80 and 99-112: the index is read whole (the handler's first KV
\* call) and sliced; the records of the page are then got together
ListStart(p, r) ==
    /\ Dispatch(p, r)
    /\ NoWrite
    /\ LET keys == getIndex(INDEX, r.index)
           pageKeys == PageKeys(keys, Page(r.query), PageSize(r.query))
       IN  IF Len(pageKeys) = 0
           THEN Return(p, ListResponse(r, keys, pageKeys, <<>>))
           ELSE Start(p, "l_items",
                      [list |-> keys, clicks |-> <<>>, pageKeys |-> pageKeys,
                       data |-> [i \in {} |-> Null]])

\* line 73: GET /admin/redirects reads the index of all keys
listRedirects(p, query) ==
    ListStart(p, [op |-> "list", index |-> ALL, query |-> query])

\* lines 100 and 104: GET /admin/redirects/by-user reads the index of the user
listRedirectsByUser(p, user, query) ==
    ListStart(p, [op |-> "list", index |-> UserIndex(user), user |-> user,
                  query |-> query])

\* lines 82-87 and 114-119: one of the gets of Promise.all is answered, in
\* any order; the last answer completes the response.  JSON.parse throws in
\* the callback of a value that is not JSON: Promise.all rejects, the handler
\* throws
ListItem(p) ==
    /\ Running(p, "l_items")
    /\ Quiet
    /\ \E i \in 1..Len(loc[p].pageKeys) \ DOMAIN loc[p].data :
         LET k == loc[p].pageKeys[i]
             data == [j \in DOMAIN loc[p].data \cup {i} |->
                        IF j = i THEN ItemData(REDIRECTS, k)
                        ELSE loc[p].data[j]]
         IN  IF KVhas(REDIRECTS, k) /\ ~Parses(REDIRECTS[k])
             THEN Return(p, InternalError)
             ELSE IF DOMAIN data = 1..Len(loc[p].pageKeys)
             THEN Return(p, ListResponse(req[p], loc[p].list,
                                         loc[p].pageKeys, data))
             ELSE Goto(p, "l_items", [loc[p] EXCEPT !.data = data])

(***************************************************************************)
(* Specifications.                                                         *)
(***************************************************************************)
\* a step of the request in flight in slot p
Step(p) ==
    \/ CreatePut(p)
    \/ CreateClicks(p)
    \/ addToIndex_get(p)
    \/ removeFromIndex_get(p)
    \/ saveIndex_put(p)
    \/ EditCheck(p)
    \/ EditPut(p)
    \/ EditPutNew(p)
    \/ EditDeleteOld(p)
    \/ EditClicksGet(p)
    \/ EditClicksPut(p)
    \/ EditClicksDelete(p)
    \/ DeleteRecord(p)
    \/ DeleteClicks(p)
    \/ ResolveClicksGet(p)
    \/ ResolveClicksPut(p)
    \/ ListItem(p)

IndexNames == {ALL} \cup {UserIndex(u) : u \in Users}

\* requests one at a time: one is dispatched when none is in flight
Admit == clock < MaxRequests /\ AllIdle

Next ==
    \/ \E payload \in CreatePayloads : Admit /\ CreateStart(1, payload)
    \/ \E g \in PathGroups, s \in PathSlugs, payload \in PatchPayloads :
          Admit /\ EditStart(1, g, s, payload)
    \/ \E g \in PathGroups, s \in PathSlugs : Admit /\ DeleteStart(1, g, s)
    \/ \E g \in PathGroups, s \in PathSlugs : Admit /\ ResolveStart(1, g, s)
    \/ \E query \in ListQueries : Admit /\ listRedirects(1, query)
    \/ \E user \in Users, query \in ListQueries :
          Admit /\ listRedirectsByUser(1, user, query)
    \/ Step(1)

Spec == Init /\ [][Next]_vars

(***************************************************************************)
(* Overlapping requests: the KV calls of the requests in flight interleave *)
(* in any order.  A request goes to the lowest idle slot.                  *)
(***************************************************************************)
ConcCreatePayloads ==
    {Payload([group |-> GroupAB, slug |-> SlugHome, target |-> URL1, createdBy |-> "u1"]),
     Payload([group |-> GroupAB, slug |-> SlugLand, target |-> URL1, createdBy |-> "u1"]),
     Payload([group |-> GroupAB, slug |-> SlugLand, target |-> URL2, createdBy |-> "u2"])}

ConcPatchPayloads ==
    {Payload([slug |-> SlugHome]), Payload([slug |-> SlugLand])}

LowestIdle(p) == Idle(p) /\ \A q \in Procs : q < p => ~Idle(q)

ConcAdmit(p) == clock < MaxConcRequests /\ LowestIdle(p)

ConcNext ==
    \E p \in Procs :
        \/ \E payload \in ConcCreatePayloads : ConcAdmit(p) /\ CreateStart(p, payload)
        \/ \E s \in Slugs, payload \in ConcPatchPayloads :
              ConcAdmit(p) /\ EditStart(p, GroupAB, s, payload)
        \/ \E s \in Slugs : ConcAdmit(p) /\ DeleteStart(p, GroupAB, s)
        \/ \E s \in Slugs : ConcAdmit(p) /\ ResolveStart(p, GroupAB, s)
        \/ ConcAdmit(p) /\ listRedirects(p, EmptyObj)
        \/ Step(p)

ConcSpec == Init /\ [][ConcNext]_vars

(***************************************************************************)
(* Overlapping creates and deletes of two keys of one creator, over more   *)
(* requests than ConcSpec affords.                                         *)
(***************************************************************************)
OrderCreatePayloads ==
    {Payload([group |-> GroupAB, slug |-> s, target |-> URL1, createdBy |-> "u1"]) :
        s \in Slugs}

OrderAdmit(p) == clock < MaxOrderRequests /\ LowestIdle(p)

OrderNext ==
    \E p \in Procs :
        \/ \E payload \in OrderCreatePayloads : OrderAdmit(p) /\ CreateStart(p, payload)
        \/ \E s \in Slugs : OrderAdmit(p) /\ DeleteStart(p, GroupAB, s)
        \/ CreatePut(p)
        \/ CreateClicks(p)
        \/ addToIndex_get(p)
        \/ removeFromIndex_get(p)
        \/ saveIndex_put(p)
        \/ DeleteRecord(p)
        \/ DeleteClicks(p)

OrderSpec == Init /\ [][OrderNext]_vars

(***************************************************************************)
(* The index calls alone: addToIndex and removeFromIndex are applied, one  *)
(* whole call at a time, to every index and key.                           *)
(***************************************************************************)
IndexKeys == {makeKey(GroupAB, s) : s \in Slugs \cup {<<"x">>}}

\* a call of addToIndex (no list is longer than the keys there are)
IndexAdd(name, value) ==
    /\ Len(getIndex(INDEX, name)) <= Cardinality(IndexKeys)
    /\ INDEX' = addToIndex(INDEX, name, value)
    /\ UNCHANGED <<REDIRECTS, CLICKS, pc, req, loc, resp, writes, clock>>

\* a call of removeFromIndex
IndexRemove(name, value) ==
    /\ INDEX' = removeFromIndex(INDEX, name, value)
    /\ UNCHANGED <<REDIRECTS, CLICKS, pc, req, loc, resp, writes, clock>>

IndexNext ==
    \/ \E name \in IndexNames, value \in IndexKeys : IndexAdd(name, value)
    \/ \E name \in IndexNames, value \in IndexKeys : IndexRemove(name, value)

IndexSpec == Init /\ [][IndexNext]_vars

(***************************************************************************)
(* One key is created, then resolved again and again, one resolution at a  *)
(* time (the detached counter write of one has landed before the next).    *)
(***************************************************************************)
ClickNext ==
    \/ \E payload \in ConcCreatePayloads :
          clock = 0 /\ CreateStart(1, payload)
    \/ \E s \in Slugs :
          clock >= 1 /\ clock <= MaxResolves /\ AllIdle
          /\ KVhas(REDIRECTS, makeKey(GroupAB, s))
          /\ ResolveStart(1, GroupAB, s)
    \/ CreatePut(1)
    \/ CreateClicks(1)
    \/ addToIndex_get(1)
    \/ saveIndex_put(1)
    \/ ResolveClicksGet(1)
    \/ ResolveClicksPut(1)

ClickSpec == Init /\ [][ClickNext]_vars

(***************************************************************************)
(* KV calls that fail.  A call that rejects makes its await throw; what no *)
(* handler catches reaches the catch of fetch.  A call that fails has done *)
(* nothing to the store.                                                   *)
(***************************************************************************)
\* the awaits whose rejection a handler catches itself
CaughtAt == {"c_clicks", "d_clk", "r_clk_put"}

\* index.ts lines 99-102: the KV call the request awaits rejects and nothing
\* catches it (every await but the three above): the answer is the 500
KVFails(p) ==
    /\ ~Idle(p)
    /\ pc[p] \notin CaughtAt
    /\ UNCHANGED <<req, clock>>
    /\ Quiet
    /\ Return(p, InternalError)

\* admin.ts line 51: CLICKS.put(key, "0") rejects, the catch logs it; the 201
CreateClicksFails(p) ==
    /\ Running(p, "c_clicks")
    /\ Quiet
    /\ Return(p, [status |-> 201, message |-> "Redirect created", key |-> loc[p].key])

\* admin.ts lines 248-249: CLICKS.delete(key) rejects, the catch logs it; the
\* 200
DeleteClicksFails(p) ==
    /\ Running(p, "d_clk")
    /\ Quiet
    /\ Return(p, [status |-> 200, message |-> "Deleted"])

\* redirect lines 133-135: the detached CLICKS.put rejects, the catch logs it;
\* the 302 has been returned
ResolveClicksPutFails(p) ==
    /\ Running(p, "r_clk_put")
    /\ Quiet
    /\ pc' = [pc EXCEPT ![p] = "idle"]
    /\ loc' = [loc EXCEPT ![p] = NoLoc]
    /\ UNCHANGED resp

\* requests one at a time, any KV call after a handler's first may fail
FailAdmit == clock < MaxFailRequests /\ AllIdle

FailNext ==
    \/ \E payload \in ConcCreatePayloads : FailAdmit /\ CreateStart(1, payload)
    \/ \E s \in Slugs, payload \in ConcPatchPayloads :
          FailAdmit /\ EditStart(1, GroupAB, s, payload)
    \/ \E s \in Slugs : FailAdmit /\ DeleteStart(1, GroupAB, s)
    \/ \E s \in Slugs : FailAdmit /\ ResolveStart(1, GroupAB, s)
    \/ FailAdmit /\ listRedirects(1, EmptyObj)
    \/ Step(1)
    \/ KVFails(1)
    \/ CreateClicksFails(1)
    \/ DeleteClicksFails(1)
    \/ ResolveClicksPutFails(1)

FailSpec == Init /\ [][FailNext]_vars

(***************************************************************************)
(* Stored records that are not JSON.  The bindings of the namespaces are   *)
(* open to other writers (the dashboard, wrangler); the handlers provide   *)
(* for what they may leave ("corrupted entry", redirect lines 124-130).    *)
(***************************************************************************)
\* another writer leaves a value that is not JSON at a key of REDIRECTS
ExternalPut(key) ==
    /\ AllIdle
    /\ clock < MaxCorruptRequests
    /\ REDIRECTS' = KVput(REDIRECTS, key, Garbage)
    /\ UNCHANGED <<CLICKS, INDEX, pc, req, loc, resp, writes, clock>>

CorruptAdmit == clock < MaxCorruptRequests /\ AllIdle

CorruptNext ==
    \/ \E payload \in ConcCreatePayloads : CorruptAdmit /\ CreateStart(1, payload)
    \/ \E s \in Slugs, payload \in ConcPatchPayloads :
          CorruptAdmit /\ EditStart(1, GroupAB, s, payload)
    \/ \E s \in Slugs : CorruptAdmit /\ DeleteStart(1, GroupAB, s)
    \/ \E s \in Slugs : CorruptAdmit /\ ResolveStart(1, GroupAB, s)
    \/ \E query \in ListQueries : CorruptAdmit /\ listRedirects(1, query)
    \/ \E user \in Users, query \in ListQueries :
          CorruptAdmit /\ listRedirectsByUser(1, user, query)
    \/ \E s \in Slugs : ExternalPut(makeKey(GroupAB, s))
    \/ Step(1)

CorruptSpec == Init /\ [][CorruptNext]_vars

(***************************************************************************)
(* Properties.                                                             *)
(***************************************************************************)
\* how many times key k occurs in a list
Count(list, k) == Cardinality({i \in 1..Len(list) : list[i] = k})

\* every key that has a record or stands in some index list
KnownKeys ==
    DOMAIN REDIRECTS \cup
    UNION {{INDEX[n][i] : i \in 1..Len(INDEX[n])} : n \in DOMAIN INDEX}

\* the value of property f of object o, as a set: empty when o has no f
Prop(o, f) == IF f \in DOMAIN o THEN {o[f]} ELSE {}

\* C1: with requests one at a time, whenever none is in flight, a key is in
\* the ALL list once if it has a record and not at all otherwise, and in
\* the list of creator u once if it has a record created by u and not at
\* all otherwise.
C1_IndexMirrorsRecords ==
    AllIdle =>
        \A k \in KnownKeys :
            /\ Count(getIndex(INDEX, ALL), k) =
                  (IF KVhas(REDIRECTS, k) THEN 1 ELSE 0)
            /\ \A u \in Users :
                  Count(getIndex(INDEX, UserIndex(u)), k) =
                     (IF KVhas(REDIRECTS, k) /\ REDIRECTS[k].createdBy = u
                      THEN 1 ELSE 0)
            /\ DOMAIN INDEX \subseteq IndexNames

\* a rename has completed: the record stands at the new key only, and the
\* new key is in both lists
C1_Witness ==
    /\ AllIdle
    /\ req[1].op = "edit" /\ resp[1].status = 200
    /\ Has(resp[1], "newKey")
    /\ KVhas(REDIRECTS, resp[1].newKey)
    /\ ~KVhas(REDIRECTS, resp[1].oldKey)
    /\ Includes(getIndex(INDEX, ALL), resp[1].newKey)
    /\ Includes(getIndex(INDEX, UserIndex(REDIRECTS[resp[1].newKey].createdBy)),
                resp[1].newKey)

\* a create body that meets create's precondition: group and slug match
\* their patterns, target is an absolute URL, createdBy is not empty
WellFormedCreate(payload) ==
    /\ payload.json
    /\ {"group", "slug", "target", "createdBy"} \subseteq DOMAIN payload.body
    /\ validateGroup(payload.body.group)
    /\ validateSlug(payload.body.slug)
    /\ payload.body.target \in AbsoluteURLs
    /\ payload.body.createdBy # ""

\* C2: with requests one at a time, a well-formed create on a key that has a
\* record returns 409 at once and leaves REDIRECTS, CLICKS and INDEX as they
\* were; a well-formed create on a key without a record is not answered at
\* once, and a create that got past the existence check ends with 201 and
\* the record at its key: so a 201 is returned only when the key had no
\* record.
C2_CreateOnLiveKeyConflicts ==
    [][ /\ (clock' = clock + 1 /\ req'[1].op = "create"
            /\ WellFormedCreate(req'[1].payload)
            /\ KVhas(REDIRECTS, makeKey(req'[1].payload.body.group,
                                        req'[1].payload.body.slug)))
           => /\ resp'[1].status = 409
              /\ pc'[1] = "idle"
              /\ writes'[1] = 0
              /\ store' = store
        /\ (clock' = clock + 1 /\ req'[1].op = "create"
            /\ WellFormedCreate(req'[1].payload)
            /\ ~KVhas(REDIRECTS, makeKey(req'[1].payload.body.group,
                                         req'[1].payload.body.slug)))
           => /\ pc'[1] # "idle"
              /\ resp'[1].status = 0
        /\ (req[1].op = "create" /\ pc[1] # "idle" /\ pc'[1] = "idle")
           => /\ resp'[1].status = 201
              /\ resp'[1].key = makeKey(req[1].payload.body.group,
                                        req[1].payload.body.slug)
              /\ KVhas(REDIRECTS', resp'[1].key)
      ]_vars

\* a create has been refused with 409 while the record it met stands
C2_Witness ==
    /\ req[1].op = "create"
    /\ resp[1].status = 409
    /\ KVhas(REDIRECTS, makeKey(req[1].payload.body.group, req[1].payload.body.slug))

\* the strings that are not the empty string and are not absolute URLs fail
\* validation just as the empty string does
FailsPattern(obj, f, max) ==
    /\ Has(obj, f)
    /\ ~(/\ Len(obj[f]) \in 1..max
         /\ \A i \in 1..Len(obj[f]) : IdChar(obj[f][i]))

\* the input of a create fails validation: no JSON body, a required field
\* missing or empty, a group or slug off its pattern, a target that is no
\* absolute URL
InvalidCreate(payload) ==
    \/ ~payload.json
    \/ \E f \in {"group", "slug", "target", "createdBy"} : Not(payload.body, f)
    \/ FailsPattern(payload.body, "group", GroupMaxLen)
    \/ FailsPattern(payload.body, "slug", SlugMaxLen)
    \/ payload.body.target \notin AbsoluteURLs

\* the input of an update fails validation: no JSON body, an empty patch, a
\* target that is no absolute URL, a group or slug off its pattern
InvalidPatch(payload) ==
    \/ ~payload.json
    \/ DOMAIN payload.body \cap Allowed = {}
    \/ Has(payload.body, "target") /\ payload.body.target \notin AbsoluteURLs
    \/ FailsPattern(payload.body, "group", GroupMaxLen)
    \/ FailsPattern(payload.body, "slug", SlugMaxLen)

\* C5: a create or an update whose input fails validation returns 400 and
\* issues no put and no delete (an update of a key that has no record, which
\* is answered 404 before its body is looked at, set aside).
C5_InvalidInputIsRejected ==
    \A p \in Procs :
        /\ (Idle(p) /\ req[p].op = "create" /\ InvalidCreate(req[p].payload))
           => (resp[p].status = 400 /\ writes[p] = 0)
        /\ (Idle(p) /\ req[p].op = "edit" /\ InvalidPatch(req[p].payload)
            /\ resp[p].status # 404)
           => (resp[p].status = 400 /\ writes[p] = 0)

\* C6: every record in REDIRECTS has a group and a slug that match their
\* patterns and a target that is an absolute URL, and stands at the key
\* group/slug of its own fields.
C6_RecordsAreValid ==
    \A k \in DOMAIN REDIRECTS :
        /\ validateGroup(REDIRECTS[k].group)
        /\ validateSlug(REDIRECTS[k].slug)
        /\ REDIRECTS[k].target \in AbsoluteURLs
        /\ k = makeKey(REDIRECTS[k].group, REDIRECTS[k].slug)

\* C7: with requests one at a time, the put of a rename writes at the new
\* key a record with the createdBy and createdAt of the record at the old
\* key, and with its target, title and notes except those the patch sets;
\* when the rename returns, the old key has no record and the new key has
\* one; and no step of an update changes the createdBy or createdAt of the
\* record it updates.
C7_RenamePreservesPayload ==
    [][ req[1].op = "edit" /\ pc[1] # "idle" =>
          LET oldKey == makeKey(req[1].group, req[1].slug)
              patch == req[1].payload.body
          IN  /\ \A k \in DOMAIN REDIRECTS' :
                    (~KVhas(REDIRECTS, k) \/ REDIRECTS'[k] # REDIRECTS[k]) =>
                       /\ KVhas(REDIRECTS, oldKey)
                       /\ REDIRECTS'[k].createdBy = REDIRECTS[oldKey].createdBy
                       /\ REDIRECTS'[k].createdAt = REDIRECTS[oldKey].createdAt
                       /\ \A f \in {"target", "title", "notes"} :
                             Prop(REDIRECTS'[k], f) =
                                (IF Has(patch, f) THEN {patch[f]}
                                 ELSE Prop(REDIRECTS[oldKey], f))
                       /\ DOMAIN REDIRECTS'[k] \subseteq
                             DOMAIN REDIRECTS[oldKey] \cup (DOMAIN patch \cap Allowed)
                                \cup {"updatedAt"}
                       /\ k = makeKey(REDIRECTS'[k].group, REDIRECTS'[k].slug)
              /\ (pc'[1] = "idle" /\ resp'[1].status = 200 /\ Has(resp'[1], "newKey")) =>
                    /\ resp'[1].oldKey = oldKey
                    /\ resp'[1].newKey # oldKey
                    /\ ~KVhas(REDIRECTS', oldKey)
                    /\ KVhas(REDIRECTS', resp'[1].newKey)
      ]_vars

\* a record created with a title and notes has been renamed with a patch
\* that sets the slug only, and still has them
C7_Witness ==
    /\ AllIdle
    /\ req[1].op = "edit" /\ resp[1].status = 200
    /\ Has(resp[1], "newKey")
    /\ DOMAIN req[1].payload.body = {"slug"}
    /\ KVhas(REDIRECTS, resp[1].newKey)
    /\ Has(REDIRECTS[resp[1].newKey], "title")
    /\ REDIRECTS[resp[1].newKey].updatedAt > REDIRECTS[resp[1].newKey].createdAt

\* the key an update moves its record to: the patch's group and slug where
\* it has them, the record's otherwise
TargetKey(patch, record) ==
    makeKey(IF Has(patch, "group") THEN patch.group ELSE record.group,
            IF Has(patch, "slug") THEN patch.slug ELSE record.slug)

\* C10: with requests one at a time, an update or a delete of a key without
\* a record returns 404 at once; an update in flight that has written
\* nothing and would move its record onto a key that has a record returns
\* 409 at its next step; and the step that returns 404 or 409 leaves
\* REDIRECTS, CLICKS and INDEX as they were, its request having issued no
\* put and no delete.
C10_NotFoundAndConflictWriteNothing ==
    [][ /\ (clock' = clock + 1 /\ req'[1].op \in {"edit", "delete"}
            /\ validateGroup(req'[1].group) /\ validateSlug(req'[1].slug)
            /\ ~KVhas(REDIRECTS, makeKey(req'[1].group, req'[1].slug)))
           => /\ resp'[1].status = 404
              /\ pc'[1] = "idle"
        /\ (req[1].op = "edit" /\ pc[1] # "idle" /\ writes[1] = 0
            /\ LET oldKey == makeKey(req[1].group, req[1].slug)
                   newKey == TargetKey(req[1].payload.body, REDIRECTS[oldKey])
               IN  newKey # oldKey /\ KVhas(REDIRECTS, newKey))
           => /\ resp'[1].status = 409
              /\ pc'[1] = "idle"
        /\ (req'[1].op \in {"edit", "delete"} /\ pc'[1] = "idle"
            /\ resp'[1].status \in {404, 409})
           => /\ writes'[1] = 0
              /\ store' = store
      ]_vars

\* a rename onto a key that has a record has been refused, and both records
\* stand
C10_Witness ==
    /\ AllIdle
    /\ req[1].op = "edit" /\ resp[1].status = 409
    /\ KVhas(REDIRECTS, makeKey(req[1].group, req[1].slug))
    /\ KVhas(REDIRECTS, TargetKey(req[1].payload.body,
                                  REDIRECTS[makeKey(req[1].group, req[1].slug)]))
    /\ Cardinality(DOMAIN REDIRECTS) = 2

\* C3: two admin requests on different keys have overlapped and both have
\* completed with success (they are the only requests so far): every key
\* that has a record is once in the ALL list and once in the list of its
\* createdBy.
C3_OverlapOnDifferentKeysConsistent ==
    (/\ AllIdle
     /\ clock = 2
     /\ \A p \in Procs : req[p].op = "create" /\ resp[p].status = 201
     /\ resp[1].key # resp[2].key)
    => \A k \in DOMAIN REDIRECTS :
          /\ Count(getIndex(INDEX, ALL), k) = 1
          /\ Count(getIndex(INDEX, UserIndex(REDIRECTS[k].createdBy)), k) = 1

\* C4: two creates of the same key have overlapped (they are the only
\* requests so far): at most one of them has returned 201.
C4_OverlappingCreatesOneWins ==
    (/\ AllIdle
     /\ clock = 2
     /\ \A p \in Procs : req[p].op = "create"
     /\ makeKey(req[1].payload.body.group, req[1].payload.body.slug) =
        makeKey(req[2].payload.body.group, req[2].payload.body.slug))
    => ~(resp[1].status = 201 /\ resp[2].status = 201)

\* the decimal numerals, written out
Numerals ==
    << <<"0">>, <<"1">>, <<"2">>, <<"3">>, <<"4">>, <<"5">>, <<"6">>, <<"7">>,
       <<"8">>, <<"9">>, <<"1","0">>, <<"1","1">>, <<"1","2">>, <<"1","3">>,
       <<"1","4">>, <<"1","5">>, <<"1","6">>, <<"1","7">>, <<"1","8">>,
       <<"1","9">>, <<"2","0">> >>

Numeral(n) == Numerals[n + 1]

NumberOf(numeral) == CHOOSE n \in 0..(Len(Numerals) - 1) : Numerals[n + 1] = numeral

\* C8: a key is created and then resolved N times, one resolution after the
\* other: when none is in flight its counter is the numeral of N (the
\* clock has counted the create and the N resolutions).
C8_SequentialResolutionsCount ==
    (AllIdle /\ clock >= 1) =>
        \A k \in DOMAIN REDIRECTS :
            /\ KVhas(CLICKS, k)
            /\ CLICKS[k] = Numeral(clock - 1)

\* ten resolutions or more have been counted
C8_Witness ==
    /\ AllIdle
    /\ clock >= 11
    /\ \E k \in DOMAIN CLICKS : Len(CLICKS[k]) = 2

RECURSIVE ConcatPages(_, _, _, _)
ConcatPages(keys, pageSize, page, last) ==
    IF page > last THEN <<>>
    ELSE PageKeys(keys, page, pageSize) \o ConcatPages(keys, pageSize, page + 1, last)

\* C9: with requests one at a time, a completed listing of a list of n keys
\* with page p and page size k >= 1 reports totalItems = n and totalPages =
\* the least m with m * k >= n, and its items are the keys at positions
\* (p-1)*k+1 .. min(p*k, n) of the list, in order; and for every list in
\* INDEX and every page size, the pages 1..totalPages put end to end are
\* the list.
C9_PagesCoverThePartition ==
    /\ (AllIdle /\ req[1].op = "list" /\ resp[1].status = 200) =>
          LET keys == getIndex(INDEX, req[1].index)
              n == Len(keys)
              q == req[1].query
              pg == IF Has(q, "page") THEN NumberOf(q.page) ELSE 1
              k == IF Has(q, "pageSize") THEN NumberOf(q.pageSize) ELSE 20
              first == (pg - 1) * k
              cnt == IF n - first < 0 THEN 0 ELSE IF n - first < k THEN n - first ELSE k
          IN  /\ resp[1].page = pg
              /\ resp[1].pageSize = k
              /\ resp[1].totalItems = n
              /\ resp[1].totalPages * k >= n
              /\ resp[1].totalPages = 0 \/ (resp[1].totalPages - 1) * k < n
              /\ Len(resp[1].items) = cnt
              /\ \A i \in 1..cnt : resp[1].items[i].key = keys[first + i]
    /\ \A name \in DOMAIN INDEX, k \in 1..MaxPageSize :
          ConcatPages(INDEX[name], k, 1, TotalPages(INDEX[name], k)) = INDEX[name]

\* the second of two pages of a user's list has been served
C9_Witness ==
    /\ AllIdle
    /\ req[1].op = "list" /\ resp[1].status = 200
    /\ req[1].index # ALL
    /\ resp[1].page = 2 /\ resp[1].totalPages = 2
    /\ Len(resp[1].items) = 1
    /\ resp[1].items[1].key = INDEX[req[1].index][2]

(***************************************************************************)
(* Failures of store calls.                                                *)
(***************************************************************************)
\* the awaits of a handler after its record is written (create, rename) or
\* deleted (delete): the counter and index calls that follow
PastRecordWrite ==
    {"c_clicks", "d_clk", "e_clk_get", "e_clk_put", "e_clk_del"}
    \cup {s \o "_get" : s \in {"e_all_rm", "e_all_add", "e_usr_rm", "e_usr_add"}}
    \cup {s \o "_put" : s \in {"e_all_rm", "e_all_add", "e_usr_rm", "e_usr_add"}}

\* C11: a create, rename or delete whose record write or delete has succeeded
\* ends with its success status (201 or 200), whatever store call of its
\* counter and index side effects fails afterwards.
C11_SideEffectFailuresAreCaught ==
    [][\A p \in Procs :
          (pc[p] \in PastRecordWrite /\ pc'[p] = "idle")
              => resp'[p].status \in {200, 201}]_vars

(***************************************************************************)
(* The frame of a public resolution.                                       *)
(***************************************************************************)
\* the step dispatches a request to slot p
DispatchedTo(p) == clock' = clock + 1 /\ LowestIdle(p)

\* the step is one of a resolution in slot p: its dispatch, its counter read,
\* or the landing (or failing) of its detached counter write
ResolveStep(p) ==
    /\ req'[p].op = "resolve"
    /\ DispatchedTo(p) \/ (clock' = clock /\ pc'[p] # pc[p])

\* C12: a public resolution never writes REDIRECTS or INDEX; it changes no
\* counter but that of the key it resolves, and changes that one only when it
\* has answered 302: a resolution that finds no record (404) or a record that
\* is not JSON (500) leaves CLICKS as it was.
C12_ResolutionWritesOnlyItsCounter ==
    [][\A p \in Procs : ResolveStep(p) =>
          LET key == makeKey(req'[p].group, req'[p].slug)
          IN  /\ REDIRECTS' = REDIRECTS
              /\ INDEX' = INDEX
              /\ \A k \in (DOMAIN CLICKS \cup DOMAIN CLICKS') \ {key} :
                    Prop(CLICKS', k) = Prop(CLICKS, k)
              /\ CLICKS' # CLICKS => resp'[p].status = 302
              /\ resp'[p].status \in {404, 500} => CLICKS' = CLICKS]_vars

\* a resolution of a key whose stored value is not JSON has answered 500 and
\* the counter the key was created with is as it was
C12_Witness ==
    /\ Idle(1) /\ req[1].op = "resolve"
    /\ resp[1] = Err(500, "Redirect data corrupted")
    /\ REDIRECTS[makeKey(req[1].group, req[1].slug)] = Garbage
    /\ Prop(CLICKS, makeKey(req[1].group, req[1].slug)) = {<<"0">>}

(***************************************************************************)
(* The order of the store mutations of create and delete.                  *)
(***************************************************************************)
\* the keys listed in some index
IndexedKeys == UNION {{INDEX[n][i] : i \in 1..Len(INDEX[n])} : n \in DOMAIN INDEX}

\* C13: the record is the first write of a create, so that a create which
\* stops between two store calls leaves no index holding a key whose record
\* it never wrote: after one request on the empty store, every indexed key
\* has a record.
C13_RecordIsFirstWrite ==
    (clock = 1 /\ AllIdle) => IndexedKeys \subseteq DOMAIN REDIRECTS

(***************************************************************************)
(* Resolution and the counter store.                                       *)
(***************************************************************************)
\* C14: the answer of a resolution does not depend on the counter store: a
\* resolution of a key whose record exists and parses answers 302, whether
\* the read of the counter or its write fails or not.
C14_ResolutionIgnoresCounterFailures ==
    \A p \in Procs :
        (/\ Idle(p) /\ req[p].op = "resolve"
         /\ KVhas(REDIRECTS, makeKey(req[p].group, req[p].slug))
         /\ Parses(REDIRECTS[makeKey(req[p].group, req[p].slug)]))
            => resp[p].status = 302

(***************************************************************************)
(* The order in which a rename reconciles the indexes.                     *)
(***************************************************************************)
\* the awaits of the four index calls of a rename, in the order claimed:
\* remove(ALL, oldKey), add(ALL, newKey), remove(USER, oldKey),
\* add(USER, newKey), each a get followed by a put
RenameOrder ==
    <<"e_all_rm_get", "e_all_rm_put", "e_all_add_get", "e_all_add_put",
      "e_usr_rm_get", "e_usr_rm_put", "e_usr_add_get", "e_usr_add_put">>

RenameAwaits == {RenameOrder[i] : i \in 1..Len(RenameOrder)}

PlaceOf(at) == CHOOSE i \in 1..Len(RenameOrder) : RenameOrder[i] = at

\* a rename is past its collision check
Renaming(p) ==
    pc[p] \in {"e_put_new", "e_del_old", "e_clk_get", "e_clk_put", "e_clk_del"}
              \cup RenameAwaits

\* C15: a rename goes through its index calls in the order remove(ALL,
\* oldKey), add(ALL, newKey), remove(USER, oldKey), add(USER, newKey), and in
\* no state of a rename does one index list hold both oldKey and newKey.
C15_RenameRemovesBeforeAdding ==
    [][\A p \in Procs :
          /\ (pc'[p] \in RenameAwaits /\ pc[p] \notin RenameAwaits)
                => pc'[p] = RenameOrder[1]
          /\ (pc[p] \in RenameAwaits /\ pc'[p] # pc[p]) =>
                \/ pc'[p] \in RenameAwaits /\ PlaceOf(pc'[p]) = PlaceOf(pc[p]) + 1
                \/ /\ PlaceOf(pc[p]) = Len(RenameOrder)
                   /\ pc'[p] = "idle" /\ resp'[p].status = 200
          /\ Renaming(p)' =>
                \A n \in DOMAIN INDEX' :
                    ~(Includes(INDEX'[n], loc'[p].key)
                      /\ Includes(INDEX'[n], loc'[p].newKey))]_vars

\* a rename is half way: the list of all keys holds the new key and no more
\* the old one, the list of the creator still holds the old key only
C15_Witness ==
    /\ pc[1] = "e_usr_rm_get"
    /\ Includes(INDEX[ALL], loc[1].newKey)
    /\ ~Includes(INDEX[ALL], loc[1].key)
    /\ Includes(INDEX[UserIndex(loc[1].createdBy)], loc[1].key)
    /\ ~Includes(INDEX[UserIndex(loc[1].createdBy)], loc[1].newKey)

(***************************************************************************)
(* The counter of a renamed or deleted key.                                *)
(***************************************************************************)
\* the step takes the request in slot p from await a to await b
Moves(p, a, b) == pc[p] = a /\ pc'[p] = b

KeysOf(list) == {list[i] : i \in 1..Len(list)}

NoDuplicates(list) ==
    \A i, j \in 1..Len(list) : list[i] = list[j] => i = j

\* where key k is in a list that holds it
PlaceIn(list, k) == CHOOSE i \in 1..Len(list) : list[i] = k

\* C17: every list stored in INDEX is free of duplicates, and the keys of a
\* list keep their order of insertion: no write to a list reverses two keys
\* that are in it before and after.
C17_ListsAreDuplicateFreeAndOrdered ==
    [][\A n \in DOMAIN INDEX' :
          /\ NoDuplicates(INDEX'[n])
          /\ n \in DOMAIN INDEX =>
                \A a, b \in KeysOf(INDEX[n]) \cap KeysOf(INDEX'[n]) :
                    PlaceIn(INDEX[n], a) < PlaceIn(INDEX[n], b)
                        => PlaceIn(INDEX'[n], a) < PlaceIn(INDEX'[n], b)]_vars

(***************************************************************************)
(* addToIndex and removeFromIndex as functions of the index.               *)
(***************************************************************************)
\* the members of index list name
Members(idx, name) == KeysOf(getIndex(idx, name))

\* C18: for every index and key, adding twice gives the members that adding
\* once gives, and adding a member leaves the index as it is; removing twice
\* gives the members that removing once gives, and removing a key that is not
\* a member leaves the members as they are; adding a key that is not a member
\* and removing it gives back the members there were.
C18_IndexCallsAreIdempotent ==
    \A name \in IndexNames, k \in IndexKeys :
        LET added == addToIndex(INDEX, name, k)
            removed == removeFromIndex(INDEX, name, k)
        IN  /\ Members(added, name) = Members(INDEX, name) \cup {k}
            /\ Members(addToIndex(added, name, k), name) = Members(added, name)
            /\ addToIndex(added, name, k) = added
            /\ k \in Members(INDEX, name) => added = INDEX
            /\ Members(removed, name) = Members(INDEX, name) \ {k}
            /\ Members(removeFromIndex(removed, name, k), name)
                  = Members(removed, name)
            /\ k \notin Members(INDEX, name) =>
                  /\ Members(removed, name) = Members(INDEX, name)
                  /\ Members(removeFromIndex(added, name, k), name)
                        = Members(INDEX, name)

\* the list of all keys holds two keys and the list of a creator one, put
\* there by the calls
C18_Witness ==
    /\ Len(getIndex(INDEX, ALL)) = 2
    /\ Len(getIndex(INDEX, UserIndex("u1"))) = 1
    /\ KVhas(INDEX, UserIndex("u2")) /\ INDEX[UserIndex("u2")] = <<>>

(***************************************************************************)
(* Listing a page with a bad member.                                       *)
(***************************************************************************)
\* C19: a list request is never aborted by a bad member: it ends with 200 and
\* one item for each key of the page, the data of an item being null when the
\* key has no record or a stored value that is not JSON, and the parsed
\* record otherwise.
C19_ListSurvivesBadMembers ==
    [][\A p \in Procs :
          (/\ req'[p].op = "list" /\ pc'[p] = "idle"
           /\ DispatchedTo(p) \/ pc[p] = "l_items") =>
              /\ resp'[p].status = 200
              /\ \A i \in 1..Len(resp'[p].items) :
                    LET k == resp'[p].items[i].key
                    IN  resp'[p].items[i].data =
                           IF KVhas(REDIRECTS, k) /\ Parses(REDIRECTS[k])
                           THEN JSONparse(REDIRECTS[k]) ELSE Null]_vars

(***************************************************************************)
(* Counters without a record.                                              *)
(***************************************************************************)
\* C20: whenever no request is in flight, every key with an entry in CLICKS
\* has a record in REDIRECTS, also when the store calls of a resolution
\* interleave with those of a delete or rename of the key it resolves: the
\* counter of a key that a resolution has answered 302 for is not left
\* without its record.
C20_NoOrphanCounters ==
    \A p \in Procs :
        (AllIdle /\ req[p].op = "resolve" /\ resp[p].status = 302) =>
            LET key == makeKey(req[p].group, req[p].slug)
            IN  KVhas(CLICKS, key) => KVhas(REDIRECTS, key)

=============================================================================
